---- MODULE Spec2Model ----
(***************************************************************************)
(* Model of the upload pipeline of the AI-powered data analysis dashboard: *)
(* the Suggestion Engine (app/utils/genai_utils.py), the parts of the      *)
(* cleaner, profiler and renderer that decide what the upload handler      *)
(* stores (app/utils/data_utils.py, app/utils/viz_utils.py) and the        *)
(* upload handler with its two commits (app/dashboard/routes.py).          *)
(***************************************************************************)
EXTENDS Integers, Sequences, FiniteSets, TLC

(***************************************************************************)
(* Bounds of the model.                                                    *)
(***************************************************************************)
MaxCols == 2        \* columns of an arbitrary column descriptor list
MaxMixed == 2       \* length of a model answer drawn over every kind of item
MaxItems == 6       \* length of a model answer drawn over valid items only
MaxUploads == 2     \* upload requests handled in one behaviour
MaxFaults == 1      \* matplotlib calls that raise during one upload
MaxRows == 3        \* rows of a table given to the cleaner cell by cell
MaxRequests == 1    \* delete_session and generate_summary requests handled

(***************************************************************************)
(* Program constants.                                                      *)
(***************************************************************************)
MaxSuggestions == 5     \* genai_utils.py: "Limit to 5 suggestions", [:5]
MinResponseLen == 20    \* genai_utils.py: len(result) < 20
HeadRows == 5           \* data_utils.py: df[col].head(), the first 5 rows

(***************************************************************************)
(* Python values.  A dict key that is absent and a JSON null both read as  *)
(* None through dict.get (Get); None and the empty string are falsy.       *)
(***************************************************************************)
None == "<None>"

Absent == "<absent>"

Get(v) == IF v = Absent THEN None ELSE v

Truthy(v) == Get(v) \notin {None, ""}

Min(a, b) == IF a < b THEN a ELSE b

\* The outcome of a call: a returned value or a raised exception.
Return(v) == [raised |-> "none", value |-> v]

Raise(e) == [raised |-> e, value |-> <<>>]

(***************************************************************************)
(* JSON documents, as json.loads sees them.  A document is a decode error  *)
(* (the text is not JSON), a scalar (number, true, null: not iterable), or *)
(* an iterable: an array (its elements), an object (iterating a dict       *)
(* yields its keys, which are strings) or a string (its characters).       *)
(* An element is a dict with the values of its keys type, x, y (Absent     *)
(* when it has no such key), or something that is no dict and has no .get. *)
(***************************************************************************)
Dict(t, x, y) == [isdict |-> TRUE, type |-> t, x |-> x, y |-> y]

NotADict == [isdict |-> FALSE, type |-> Absent, x |-> Absent, y |-> Absent]

DecodeError == [kind |-> "decode_error", items |-> <<>>]

Scalar == [kind |-> "scalar", items |-> <<>>]

Array(items) == [kind |-> "array", items |-> items]

Object(nkeys) == [kind |-> "object", items |-> [i \in 1..nkeys |-> NotADict]]

(***************************************************************************)
(* A text returned by the model, after strip(): whether it is shorter than *)
(* MinResponseLen, whether it contains "sorry" or "error", whether it has  *)
(* a ```json or a plain ``` fence, what the whole text decodes to and what *)
(* the text inside the first fence decodes to.                             *)
(***************************************************************************)
Text(len, apology, fence, whole, inner) ==
    [len |-> len, apology |-> apology, fence |-> fence,
     whole |-> whole, inner |-> inner, sentence |-> "model"]

\* get_fallback_insights: one fixed English sentence per graph type; it is
\* not JSON and has no fence.
get_fallback_insights(graph_type) ==
    [len |-> MinResponseLen, apology |-> FALSE, fence |-> "none",
     whole |-> DecodeError, inner |-> DecodeError, sentence |-> graph_type]

(***************************************************************************)
(* Column Profiler and Cleaner, as far as they decide the column           *)
(* descriptors: a dataframe is its columns (name, storage dtype), its row  *)
(* count, the number of distinct rows and, column by column, the number of *)
(* missing cells.                                                          *)
(***************************************************************************)
Frame(columns, rows, distinct, nulls) ==
    [columns |-> columns, rows |-> rows, distinct |-> distinct,
     nulls |-> nulls]

NoNulls(n) == [i \in 1..n |-> 0]

RECURSIVE Sum(_)
Sum(q) == IF q = <<>> THEN 0 ELSE Head(q) + Sum(Tail(q))

Column(name, dtype) == [name |-> name, dtype |-> dtype]

\* str(df[col].dtype) as get_column_info searches it: which of the words
\* object, category and datetime occur in the name of the dtype.
DtypeWords(dtype) ==
    CASE dtype = "object" -> {"object"}
      [] dtype = "category" -> {"category"}
      [] dtype = "datetime64[ns]" -> {"datetime"}
      [] dtype = "datetime64[ns, UTC]" -> {"datetime"}
      [] OTHER -> {}

\* Mutant of get_column_info: without the datetime branch.
ColumnInfoWithoutDatetime(df) ==
    [i \in 1..Len(df.columns) |->
        [name |-> df.columns[i].name,
         type |-> IF "object" \in DtypeWords(df.columns[i].dtype)
                     \/ "category" \in DtypeWords(df.columns[i].dtype)
                      THEN "categorical"
                  ELSE "numerical"]]

\* get_column_info: object/category -> categorical, datetime -> datetime,
\* everything else -> numerical; one descriptor per column, in order.
get_column_info(df) ==
    [i \in 1..Len(df.columns) |->
        [name |-> df.columns[i].name,
         type |-> IF "object" \in DtypeWords(df.columns[i].dtype)
                     \/ "category" \in DtypeWords(df.columns[i].dtype)
                      THEN "categorical"
                  ELSE IF "datetime" \in DtypeWords(df.columns[i].dtype)
                      THEN "datetime"
                  ELSE "numerical"]]

\* clean_dataframe: drop_duplicates keeps the distinct rows; the fill leaves
\* no missing cell and keeps every dtype; each object column is replaced by
\* LabelEncoder's int64 codes.
clean_dataframe(df) ==
    Frame([i \in 1..Len(df.columns) |->
              Column(df.columns[i].name,
                     IF df.columns[i].dtype = "object" THEN "int64"
                     ELSE df.columns[i].dtype)],
          df.distinct, df.distinct, NoNulls(Len(df.columns)))

(***************************************************************************)
(* The Cleaner cell by cell, for the columns it encodes: a table is its    *)
(* rows, a row its cells, a cell of an object column a string or NaN.      *)
(***************************************************************************)
NaN == "<NaN>"

\* The strings of the model in the order of numpy's sort (code points).
SortedStrings == <<"10", "9", "Unknown", "a">>

Rank(s) == CHOOSE i \in 1..Len(SortedStrings) : SortedStrings[i] = s

\* DataFrame.drop_duplicates: the first of equal rows is kept; NaN equals
\* NaN here.
RECURSIVE drop_duplicates(_, _)
drop_duplicates(rows, kept) ==
    IF rows = <<>> THEN kept
    ELSE IF \E k \in 1..Len(kept) : kept[k] = Head(rows)
        THEN drop_duplicates(Tail(rows), kept)
    ELSE drop_duplicates(Tail(rows), Append(kept, Head(rows)))

ColumnOf(rows, c) == [i \in 1..Len(rows) |-> rows[i][c]]

Values(column) == {column[i] : i \in 1..Len(column)}

Count(column, v) == Cardinality({i \in 1..Len(column) : column[i] = v})

\* Series.mode(): the most frequent values that are not missing, sorted.
mode(column) ==
    LET present == Values(column) \ {NaN}
        best == {v \in present :
                    \A w \in present : Count(column, v) >= Count(column, w)}
    IN  SelectSeq(SortedStrings, LAMBDA t : t \in best)

\* Lines 61-63: the fill value of a column that is not numerical.
FillValue(column) ==
    IF mode(column) = <<>> THEN "Unknown" ELSE mode(column)[1]

fillna(column, fill_value) ==
    [i \in 1..Len(column) |->
        IF column[i] = NaN THEN fill_value ELSE column[i]]

\* A cell of a float64 column: a number or nan.
Float(v) == [nan |-> FALSE, v |-> v]

NanFloat == [nan |-> TRUE, v |-> 0]

\* The positions of the values of a float64 column that are not missing.
NotNa(column) == {i \in 1..Len(column) : ~column[i].nan}

\* The k-th smallest of the values that are not missing.
Kth(column, k) ==
    CHOOSE v \in {column[i].v : i \in NotNa(column)} :
        /\ Cardinality({i \in NotNa(column) : column[i].v < v}) < k
        /\ Cardinality({i \in NotNa(column) : column[i].v <= v}) >= k

\* Series.median(): missing values are skipped; the middle value, or the
\* mean of the two middle values; nan for a column without a value.
median(column) ==
    LET n == Cardinality(NotNa(column))
    IN  IF n = 0 THEN NanFloat
        ELSE IF n % 2 = 1 THEN Float(Kth(column, (n + 1) \div 2))
        ELSE Float((Kth(column, n \div 2) + Kth(column, n \div 2 + 1))
                       \div 2)

\* Line 58: fillna(median_val); fillna(nan) fills nothing.
fillna_median(column, median_val) ==
    [i \in 1..Len(column) |->
        IF column[i].nan THEN median_val ELSE column[i]]

\* Mutant of classes_: the classes in the order of their first appearance.
RECURSIVE ClassesInOrderOfAppearance(_)
ClassesInOrderOfAppearance(column) ==
    IF column = <<>> THEN <<>>
    ELSE LET before ==
                 ClassesInOrderOfAppearance(SubSeq(column, 1, Len(column) - 1))
             last == column[Len(column)]
         IN  IF \E k \in 1..Len(before) : before[k] = last THEN before
             ELSE Append(before, last)

\* LabelEncoder.fit: classes_ is the sorted array of the distinct values.
classes_(column) ==
    SelectSeq(SortedStrings, LAMBDA t : t \in Values(column))

\* LabelEncoder.transform: the position of each value in classes_, from 0.
transform(classes, column) ==
    [i \in 1..Len(column) |->
        (CHOOSE k \in 1..Len(classes) : classes[k] = column[i]) - 1]

\* Mutant of EncodeColumn: the mapping numbers the values in the order of
\* their first appearance, while the codes are positions in classes_.
EncodeWithMappingByAppearance(column) ==
    LET classes == classes_(column)
        seen == ClassesInOrderOfAppearance(column)
    IN  [codes |-> transform(classes, column),
         mapping |-> [code \in 0..(Len(seen) - 1) |-> seen[code + 1]]]

\* Lines 71-78 for one column: astype(str) leaves a string as it is;
\* fit_transform gives the codes; the mapping pairs transform(classes_),
\* as int, with classes_, as str.
EncodeColumn(column) ==
    LET classes == classes_(column)
        codes == transform(classes, classes)
    IN  [codes |-> transform(classes, column),
         mapping |-> [code \in Values(codes) |->
                         classes[CHOOSE k \in 1..Len(classes) :
                                     codes[k] = code]]]

\* clean_dataframe for a table of object columns: the rows kept by
\* drop_duplicates, the fill value and the encoding of each column.
CleanCells(rows, ncols) ==
    LET kept == drop_duplicates(rows, <<>>)
        fill == [c \in 1..ncols |-> FillValue(ColumnOf(kept, c))]
        encoded == [c \in 1..ncols |->
                       EncodeColumn(fillna(ColumnOf(kept, c), fill[c]))]
    IN  [kept |-> kept,
         fill |-> fill,
         df_clean |-> [i \in 1..Len(kept) |->
                          [c \in 1..ncols |-> encoded[c].codes[i]]],
         encoding_mappings |-> [c \in 1..ncols |-> encoded[c].mapping]]

\* clean_dataframe for a table whose first column is float64 and whose
\* second column is object: the rows kept, the median and the fill value,
\* the filled and encoded table and the encoding of the second column.
CleanFloatObject(rows) ==
    LET kept == drop_duplicates(rows, <<>>)
        median_val == median(ColumnOf(kept, 1))
        fill_value == FillValue(ColumnOf(kept, 2))
        filled == fillna_median(ColumnOf(kept, 1), median_val)
        encoded == EncodeColumn(fillna(ColumnOf(kept, 2), fill_value))
    IN  [kept |-> kept,
         median_val |-> median_val,
         fill_value |-> fill_value,
         df_clean |-> [i \in 1..Len(kept) |-> <<filled[i], encoded.codes[i]>>],
         encoding_mappings |-> encoded.mapping]

(***************************************************************************)
(* Suggestion Engine (GenAIAnalyzer).                                      *)
(***************************************************************************)
ColumnsOfType(columns, t) ==
    SelectSeq(columns, LAMBDA col : col.type = t)

Names(cols) == [i \in 1..Len(cols) |-> cols[i].name]

\* The statistics argument: a dict, a str, or another Python object.  A
\* str carries what json.loads makes of it: a decode error, a dict, or
\* another value (list, number, string, null).  For a dict, shape is the
\* value of the key "shape" (absent, a list, or something that is no list)
\* and nulls the value of the key "total_null_values".
Stats(py, json, shape, nulls) ==
    [py |-> py, json |-> json, shape |-> shape, nulls |-> nulls]

AbsentShape == [kind |-> "absent", v |-> <<>>]

ListShape(v) == [kind |-> "list", v |-> v]

OtherShape == [kind |-> "other", v |-> <<>>]

AbsentNulls == [present |-> FALSE, v |-> 0]

Nulls(n) == [present |-> TRUE, v |-> n]

EmptyDict == Stats("dict", "n/a", AbsentShape, AbsentNulls)

\* Lines 42-50: a str is decoded, a decode error and every object that is
\* neither str nor dict become {}; what a str decodes to is kept as it is.
NormalizeStats(dataset_stats) ==
    IF dataset_stats.py = "str"
        THEN IF dataset_stats.json = "decode_error" THEN EmptyDict
             ELSE Stats(dataset_stats.json, "n/a",
                        dataset_stats.shape, dataset_stats.nulls)
    ELSE IF dataset_stats.py # "dict" THEN EmptyDict
    ELSE dataset_stats

\* The graph type words in the fixed text of the suggestion prompt (its
\* guidelines and examples).
SuggestionPromptWords ==
    {"histogram", "bar", "line", "pie", "box", "heatmap", "violin"}

\* _build_suggestion_prompt: the column lists and, lines 52-56, the rows,
\* columns and null count read with .get from the normalized statistics.
_build_suggestion_prompt(columns, dataset_stats) ==
    LET numerical_cols == Names(ColumnsOfType(columns, "numerical"))
        categorical_cols == Names(ColumnsOfType(columns, "categorical"))
        stats == NormalizeStats(dataset_stats)
        shape == IF stats.shape.kind = "absent" THEN ListShape(<<0, 0>>)
                 ELSE stats.shape
        rows == IF shape.kind = "list" /\ Len(shape.v) > 0
                    THEN shape.v[1] ELSE 0
        cols == IF shape.kind = "list" /\ Len(shape.v) > 1
                    THEN shape.v[2] ELSE 0
        null_values == IF stats.nulls.present THEN stats.nulls.v ELSE 0
    IN  IF stats.py # "dict" THEN Raise("AttributeError")
        ELSE Return([rows |-> rows, cols |-> cols, nulls |-> null_values,
                     numerical |-> numerical_cols,
                     categorical |-> categorical_cols,
                     keywords |-> SuggestionPromptWords])

\* The order in which _extract_graph_type looks for the graph type words.
GraphTypeWords ==
    <<"histogram", "bar", "line", "pie", "box", "heatmap", "violin">>

\* _extract_graph_type: the first word of GraphTypeWords that occurs
\* anywhere in the lower-cased prompt, 'chart' when none does.  A prompt
\* carries the set of graph type words that occur in it.
_extract_graph_type(prompt) ==
    LET found == {i \in 1..Len(GraphTypeWords) :
                     GraphTypeWords[i] \in prompt.keywords}
    IN  IF found = {} THEN "chart"
        ELSE GraphTypeWords[CHOOSE i \in found : \A j \in found : i <= j]

\* _get_ai_response: the client call raises (or returns no content) -> the
\* fallback sentence for 'chart'; a short or apologetic answer -> the
\* fallback sentence for the graph type found in the prompt; else the text.
_get_ai_response(prompt, llm) ==
    IF llm.raises THEN get_fallback_insights("chart")
    ELSE IF llm.text.len < MinResponseLen \/ llm.text.apology
        THEN get_fallback_insights(_extract_graph_type(prompt))
    ELSE llm.text

\* Mutant of _generate_fallback_suggestions: the first rule (histogram of
\* the first numerical column) is lost.
FallbackWithoutFirstRule(columns) ==
    LET numerical_cols == Names(ColumnsOfType(columns, "numerical"))
        categorical_cols == Names(ColumnsOfType(columns, "categorical"))
        r2 == IF Len(categorical_cols) > 0 /\ Len(numerical_cols) > 0
                  THEN <<Dict("bar", categorical_cols[1], numerical_cols[1])>>
                  ELSE <<>>
        r3 == IF Len(categorical_cols) > 0
                  THEN <<Dict("bar", categorical_cols[1], Absent)>> ELSE <<>>
        r4 == IF Len(numerical_cols) >= 2
                  THEN <<Dict("line", numerical_cols[1], numerical_cols[2])>>
                  ELSE <<>>
        r5 == IF Len(numerical_cols) >= 2
                  THEN <<Dict("histogram", numerical_cols[2], Absent)>> ELSE <<>>
        suggestions == r2 \o r3 \o r4 \o r5
    IN  SubSeq(suggestions, 1, Min(MaxSuggestions, Len(suggestions)))

\* _generate_fallback_suggestions: the rule-based list.
_generate_fallback_suggestions(columns) ==
    LET numerical_cols == Names(ColumnsOfType(columns, "numerical"))
        categorical_cols == Names(ColumnsOfType(columns, "categorical"))
        r1 == IF Len(numerical_cols) > 0
                  THEN <<Dict("histogram", numerical_cols[1], Absent)>> ELSE <<>>
        r2 == IF Len(categorical_cols) > 0 /\ Len(numerical_cols) > 0
                  THEN <<Dict("bar", categorical_cols[1], numerical_cols[1])>>
                  ELSE <<>>
        r3 == IF Len(categorical_cols) > 0
                  THEN <<Dict("bar", categorical_cols[1], Absent)>> ELSE <<>>
        r4 == IF Len(numerical_cols) >= 2
                  THEN <<Dict("line", numerical_cols[1], numerical_cols[2])>>
                  ELSE <<>>
        r5 == IF Len(numerical_cols) >= 2
                  THEN <<Dict("histogram", numerical_cols[2], Absent)>> ELSE <<>>
        suggestions == r1 \o r2 \o r3 \o r4 \o r5
    IN  SubSeq(suggestions, 1, Min(MaxSuggestions, Len(suggestions)))

\* Lines 289-292: the text json.loads is given.
ExtractJson(response) ==
    IF response.fence = "json" THEN response.inner
    ELSE IF response.fence = "plain" THEN response.inner
    ELSE response.whole

\* Lines 296-300: the type filter.
ExcludedTypes == {"heatmap", "box", "scatter"}

FilterSuggestions(suggestions) ==
    SelectSeq(suggestions, LAMBDA s : Get(s.type) \notin ExcludedTypes)

\* Mutant of the validation loop: the y column is not checked.
RECURSIVE ValidateWithoutYCheck(_, _, _)
ValidateWithoutYCheck(rest, column_names, valid_suggestions) ==
    IF rest = <<>> THEN valid_suggestions
    ELSE LET suggestion == Head(rest)
         IN  IF Get(suggestion.x) \notin column_names
                 THEN ValidateWithoutYCheck(Tail(rest), column_names,
                                            valid_suggestions)
             ELSE LET appended == Append(valid_suggestions, suggestion)
                  IN  IF Len(appended) >= MaxSuggestions THEN appended
                      ELSE ValidateWithoutYCheck(Tail(rest), column_names,
                                                 appended)

\* Mutant of the validation loop: the break at 5 suggestions is lost.
RECURSIVE ValidateWithoutBreak(_, _, _)
ValidateWithoutBreak(rest, column_names, valid_suggestions) ==
    IF rest = <<>> THEN valid_suggestions
    ELSE LET suggestion == Head(rest)
         IN  IF Get(suggestion.x) \notin column_names
                 THEN ValidateWithoutBreak(Tail(rest), column_names,
                                           valid_suggestions)
             ELSE IF Truthy(suggestion.y)
                     /\ Get(suggestion.y) \notin column_names
                 THEN ValidateWithoutBreak(Tail(rest), column_names,
                                           valid_suggestions)
             ELSE ValidateWithoutBreak(Tail(rest), column_names,
                                       Append(valid_suggestions, suggestion))

\* Lines 303-321: the validation loop with its break.
RECURSIVE ValidateSuggestions(_, _, _)
ValidateSuggestions(rest, column_names, valid_suggestions) ==
    IF rest = <<>> THEN valid_suggestions
    ELSE LET suggestion == Head(rest)
         IN  IF Get(suggestion.x) \notin column_names
                 THEN ValidateSuggestions(Tail(rest), column_names,
                                          valid_suggestions)
             ELSE IF Truthy(suggestion.y)
                     /\ Get(suggestion.y) \notin column_names
                 THEN ValidateSuggestions(Tail(rest), column_names,
                                          valid_suggestions)
             ELSE LET appended == Append(valid_suggestions, suggestion)
                  IN  IF Len(appended) >= MaxSuggestions THEN appended
                      ELSE ValidateSuggestions(Tail(rest), column_names,
                                               appended)

\* _parse_ai_response: only json.JSONDecodeError is caught.
_parse_ai_response(response, columns) ==
    LET suggestions == ExtractJson(response)
        column_names == {columns[i].name : i \in 1..Len(columns)}
    IN  IF suggestions.kind = "decode_error"
            THEN Return(_generate_fallback_suggestions(columns))
        ELSE IF suggestions.kind = "scalar" THEN Raise("TypeError")
        ELSE IF \E i \in 1..Len(suggestions.items) :
                    ~suggestions.items[i].isdict
            THEN Raise("AttributeError")
        ELSE Return(ValidateSuggestions(FilterSuggestions(suggestions.items),
                                        column_names, <<>>))

\* get_visualization_suggestions: prompt, model call, parse.
get_visualization_suggestions(columns, dataset_stats, llm) ==
    LET prompt == _build_suggestion_prompt(columns, dataset_stats)
    IN  IF prompt.raised # "none" THEN Raise(prompt.raised)
        ELSE _parse_ai_response(_get_ai_response(prompt.value, llm), columns)

(***************************************************************************)
(* Visualization Renderer, as far as it decides the payload and the        *)
(* description the upload handler stores.  _generate_error_image returns a *)
(* pair (data URI, message); every error return of generate_visualization  *)
(* puts that pair in the payload position.  draw is what matplotlib does   *)
(* in this call: "ok", "fails" (the drawing code raises inside the try) or *)
(* "crashes" (drawing the error image raises as well).                     *)
(* A formatted text is its fixed text, the column names formatted into it  *)
(* and, for a description, the graph type words of its fixed text.         *)
(***************************************************************************)
ChartImage == [py |-> "str", image |-> "chart"]

Message(text, columns) == [text |-> text, columns |-> columns]

Description(text, columns, words) ==
    [text |-> text, columns |-> columns, words |-> words]

_generate_error_image(message, draw) ==
    IF draw = "crashes" THEN Raise("Exception")
    ELSE Return([py |-> "tuple", image |-> "error", message |-> message])

\* A (payload, description) result whose payload is the error image.
ErrorResult(message, description, draw) ==
    LET img == _generate_error_image(message, draw)
    IN  IF img.raised # "none" THEN img
        ELSE Return([graph_data |-> img.value, description |-> description])

\* The try/except around the drawing code of each renderer.
Drawn(description, message, failure, draw) ==
    IF draw = "ok"
        THEN Return([graph_data |-> ChartImage, description |-> description])
    ELSE ErrorResult(message, failure, draw)

\* df.select_dtypes(include=[np.number]): bool and object are no numbers.
NumericalColumns(df) ==
    SelectSeq(df.columns, LAMBDA c : c.dtype \in {"int64", "float64"})

ColumnNames(df) == {df.columns[i].name : i \in 1..Len(df.columns)}

\* Mutant of _generate_correlation_heatmap: one numerical column is enough.
HeatmapOfOneColumn(df, draw) ==
    IF Len(NumericalColumns(df)) < 1
        THEN ErrorResult(
                 Message("Not enough numerical columns for heatmap", {}),
                 Description("Insufficient numerical columns (need at least 2) for correlation analysis",
                             {}, {}),
                 draw)
    ELSE Drawn(Description("Correlation heatmap showing relationships between numerical variables",
                           {}, {"heatmap"}),
               Message("Heatmap error", {}),
               Description("Heatmap generation failed", {}, {"heatmap"}),
               draw)

_generate_correlation_heatmap(df, draw) ==
    IF Len(NumericalColumns(df)) < 2
        THEN ErrorResult(
                 Message("Not enough numerical columns for heatmap", {}),
                 Description("Insufficient numerical columns (need at least 2) for correlation analysis",
                             {}, {}),
                 draw)
    ELSE Drawn(Description("Correlation heatmap showing relationships between numerical variables",
                           {}, {"heatmap"}),
               Message("Heatmap error", {}),
               Description("Heatmap generation failed", {}, {"heatmap"}),
               draw)

\* The strong correlations of _generate_correlation_heatmap (lines 156-170).
\* A coefficient is a number of hundredths or nan (a column without
\* variance); abs(nan) > 0.7 is False.
Coefficient(v) == [nan |-> FALSE, v |-> v]

NanCoefficient == [nan |-> TRUE, v |-> 0]

StrongThreshold == 70

MaxReportedPairs == 3

Abs(v) == IF v < 0 THEN 0 - v ELSE v

\* The pairs (i, j), i < j, the two loops append to strong_corrs.
strong_corrs(corr_matrix, n) ==
    {p \in (1..n) \X (1..n) :
        /\ p[1] < p[2]
        /\ ~corr_matrix[p[1]][p[2]].nan
        /\ Abs(corr_matrix[p[1]][p[2]].v) > StrongThreshold}

\* The description of the heatmap: the number of numerical variables, then
\* the sentence about strong correlations with the number it states.
HeatmapDescription(corr_matrix, n) ==
    LET strong == strong_corrs(corr_matrix, n)
    IN  IF strong # {}
            THEN [variables |-> n,
                  sentence |-> "Strong correlations found between",
                  pairs |-> Min(MaxReportedPairs, Cardinality(strong))]
        ELSE [variables |-> n,
              sentence |-> "No strong correlations detected.",
              pairs |-> 0]

_generate_outlier_boxplots(df, draw) ==
    IF Len(NumericalColumns(df)) = 0
        THEN ErrorResult(
                 Message("No numerical columns for box plots", {}),
                 Description("No numerical columns available for outlier analysis",
                             {}, {}),
                 draw)
    ELSE Drawn(Description("Box plots showing outlier detection for numerical variables",
                           {}, {"box"}),
               Message("Box plot error", {}),
               Description("Box plot generation failed", {}, {"box"}),
               draw)

\* _create_figure_with_description: the description of the figure drawn for
\* a graph type; bar, line and violin need a y, and every other request is
\* drawn as a histogram of x.
_create_figure_with_description(graph_type, x_col, y_col) ==
    IF graph_type = "histogram"
        THEN Description("Histogram of", {x_col}, {"histogram"})
    ELSE IF graph_type = "bar" /\ Truthy(y_col)
        THEN Description("Bar chart showing average", {x_col, y_col}, {"bar"})
    ELSE IF graph_type = "line" /\ Truthy(y_col)
        THEN Description("Line chart showing", {x_col, y_col}, {"line"})
    ELSE IF graph_type = "pie"
        THEN Description("Pie chart showing distribution of", {x_col}, {"pie"})
    ELSE IF graph_type = "violin" /\ Truthy(y_col)
        THEN Description("Violin plot showing distribution of",
                         {x_col, y_col}, {"violin"})
    ELSE Description("Visualization of", {x_col}, {})

\* Mutant of generate_visualization: the y column is checked before the x
\* column.
GenerateWithYCheckedFirst(df, graph_type, x_col, y_col, draw) ==
    IF df.rows = 0 \/ Len(df.columns) = 0
        THEN ErrorResult(Message("Empty dataset", {}),
                         Description("Empty dataset - no data to visualize",
                                     {}, {}),
                         draw)
    ELSE IF graph_type = "heatmap" /\ x_col = "all_numerical"
        THEN _generate_correlation_heatmap(df, draw)
    ELSE IF graph_type = "box" /\ x_col = "all_numerical"
        THEN _generate_outlier_boxplots(df, draw)
    ELSE IF Truthy(y_col) /\ y_col \notin ColumnNames(df)
        THEN ErrorResult(Message("Y-axis column not found", {y_col}),
                         Description("Error: Y-axis column not found in dataset",
                                     {y_col}, {}),
                         draw)
    ELSE IF x_col \notin ColumnNames(df) /\ x_col # "all_numerical"
        THEN ErrorResult(Message("X-axis column not found", {x_col}),
                         Description("Error: X-axis column not found in dataset",
                                     {x_col}, {}),
                         draw)
    ELSE IF x_col \notin ColumnNames(df)
        THEN ErrorResult(Message("Error generating visualization", {x_col}),
                         Description("Error:", {x_col}, {}), draw)
    ELSE Drawn(_create_figure_with_description(graph_type, x_col, y_col),
               Message("Error generating visualization", {}),
               Description("Error:", {}, {}), draw)

\* generate_visualization: the empty check, the dispatch of the two
\* essential requests, the x check, the y check, then the try block, in
\* which df["all_numerical"] raises KeyError.
generate_visualization(df, graph_type, x_col, y_col, draw) ==
    IF df.rows = 0 \/ Len(df.columns) = 0
        THEN ErrorResult(Message("Empty dataset", {}),
                         Description("Empty dataset - no data to visualize",
                                     {}, {}),
                         draw)
    ELSE IF graph_type = "heatmap" /\ x_col = "all_numerical"
        THEN _generate_correlation_heatmap(df, draw)
    ELSE IF graph_type = "box" /\ x_col = "all_numerical"
        THEN _generate_outlier_boxplots(df, draw)
    ELSE IF x_col \notin ColumnNames(df) /\ x_col # "all_numerical"
        THEN ErrorResult(Message("X-axis column not found", {x_col}),
                         Description("Error: X-axis column not found in dataset",
                                     {x_col}, {}),
                         draw)
    ELSE IF Truthy(y_col) /\ y_col \notin ColumnNames(df)
        THEN ErrorResult(Message("Y-axis column not found", {y_col}),
                         Description("Error: Y-axis column not found in dataset",
                                     {y_col}, {}),
                         draw)
    ELSE IF x_col \notin ColumnNames(df)
        THEN ErrorResult(Message("Error generating visualization", {x_col}),
                         Description("Error:", {x_col}, {}), draw)
    ELSE Drawn(_create_figure_with_description(graph_type, x_col, y_col),
               Message("Error generating visualization", {}),
               Description("Error:", {}, {}), draw)

(***************************************************************************)
(* Insight Summarizer (GenAIAnalyzer.get_graph_summary).                   *)
(***************************************************************************)
\* The graph type words that occur in a column name.
WordsIn(name) ==
    CASE name = "baseline" -> {"line"}
      [] name = "barcode" -> {"bar"}
      [] OTHER -> {}

\* The graph type words in a description: those of its fixed text and those
\* of the column names formatted into it.
DescriptionWords(description) ==
    description.words \cup UNION {WordsIn(c) : c \in description.columns}

\* The keys of prompt_templates.
TemplateTypes ==
    {"histogram", "bar", "line", "pie", "box", "heatmap", "violin"}

\* _build_summary_prompt: the template of the graph type (which names the
\* type and no other graph type word), with x, y and the description
\* formatted into the places the template has for them; the default
\* template has a place for the type itself.
_build_summary_prompt(graph_type, x_col, y_col, graph_description) ==
    LET has_x == graph_type # "heatmap"
        has_y == graph_type \notin {"histogram", "pie", "box", "heatmap"}
    IN  [keywords |->
            (IF graph_type \in TemplateTypes THEN {graph_type}
             ELSE WordsIn(graph_type))
            \cup (IF has_x THEN WordsIn(x_col) ELSE {})
            \cup (IF has_y /\ Truthy(y_col) THEN WordsIn(y_col) ELSE {})
            \cup DescriptionWords(graph_description)]

\* get_graph_summary: prompt, model call.
get_graph_summary(graph_type, x_col, y_col, graph_description, llm) ==
    _get_ai_response(
        _build_summary_prompt(graph_type, x_col, y_col, graph_description),
        llm)

(***************************************************************************)
(* Inputs of the Suggestion Engine.                                        *)
(***************************************************************************)
ColName(i) == <<"a", "b", "c", "d">>[i]

ColumnTypes == {"numerical", "categorical", "datetime"}

\* Every descriptor list of at most MaxCols columns.
ColumnLists ==
    UNION {{[i \in 1..n |-> [name |-> ColName(i), type |-> t[i]]] :
               t \in [1..n -> ColumnTypes]} : n \in 0..MaxCols}

\* The dataframes pandas.read_csv returns: at least one column, each int64,
\* float64, bool or object; no rows (a header alone) or some.
RawDtypes == {"int64", "float64", "bool", "object"}

RawFrames ==
    UNION {{Frame([i \in 1..n |-> Column(ColName(i), t[i])], r, r,
                  NoNulls(n)) :
               t \in [1..n -> RawDtypes], r \in {0, 2}} : n \in 1..MaxCols}

\* The descriptor lists the upload handler passes to the engine.
PipelineColumns == {get_column_info(clean_dataframe(f)) : f \in RawFrames}

\* The elements of a model answer: every type with a known column, every
\* combination of known, unknown, empty and missing columns, and a non-dict.
ItemTypes ==
    {"histogram", "bar", "line", "heatmap", "box", "scatter", None, Absent}

Items ==
    {Dict(t, "a", Absent) : t \in ItemTypes}
    \cup {Dict("bar", x, y) : x \in {"a", "ghost", Absent},
                              y \in {Absent, None, "", "b", "ghost"}}
    \cup {NotADict}

ValidItems == {Dict("histogram", "a", Absent), Dict("bar", "a", "b")}

SeqsOver(S, lo, hi) == UNION {[1..n -> S] : n \in lo..hi}

Documents ==
    {DecodeError, Scalar, Object(0), Object(2)}
    \cup {Array(q) : q \in SeqsOver(Items, 0, MaxMixed)}
    \cup {Array(q) : q \in SeqsOver(ValidItems, MaxMixed + 1, MaxItems)}

\* An answer is the document alone or prose around a fenced document.
Texts ==
    {Text(MinResponseLen, FALSE, "none", d, DecodeError) : d \in Documents}
    \cup {Text(MinResponseLen, FALSE, f, DecodeError, d) :
             f \in {"json", "plain"}, d \in Documents}
    \cup {Text(n, a, "none", d, DecodeError) :
             n \in {MinResponseLen - 1, MinResponseLen}, a \in BOOLEAN,
             d \in {DecodeError, Scalar, Array(<<>>),
                    Array(<<Dict(Absent, "a", Absent)>>)}}

Llm(raises, text) == [raises |-> raises, text |-> text]

NoText == Text(0, FALSE, "none", DecodeError, DecodeError)

LlmOutcomes == {Llm(TRUE, NoText)} \cup {Llm(FALSE, t) : t \in Texts}

StatsInputs ==
    {Stats(py, "n/a", sh, nl) :
        py \in {"dict"},
        sh \in {AbsentShape, OtherShape, ListShape(<<>>), ListShape(<<3>>),
                ListShape(<<3, 2>>)},
        nl \in {AbsentNulls, Nulls(1)}}
    \cup {Stats("str", "dict", sh, nl) :
             sh \in {AbsentShape, ListShape(<<3, 2>>)},
             nl \in {AbsentNulls, Nulls(1)}}
    \cup {Stats("str", j, AbsentShape, AbsentNulls) :
             j \in {"decode_error", "list", "int", "str", "NoneType"}}
    \cup {Stats(py, "n/a", AbsentShape, AbsentNulls) :
             py \in {"list", "NoneType", "tuple"}}

SnapshotStats == Stats("dict", "n/a", ListShape(<<3, 2>>), Nulls(1))

Call(columns, dataset_stats, llm) ==
    [columns |-> columns, dataset_stats |-> dataset_stats, llm |-> llm]

EngineCalls ==
    {Call(c, SnapshotStats, l) :
        c \in PipelineColumns \cup {<<[name |-> "a", type |-> "numerical"],
                                      [name |-> "b", type |-> "categorical"]>>},
        l \in LlmOutcomes}
    \cup {Call(c, SnapshotStats, l) :
             c \in ColumnLists,
             l \in {Llm(TRUE, NoText),
                    Llm(FALSE, Text(MinResponseLen, FALSE, "none",
                                    DecodeError, DecodeError))}}
    \cup {Call(<<[name |-> "a", type |-> "numerical"]>>, st,
               Llm(FALSE, Text(MinResponseLen, FALSE, "none",
                               Array(<<Dict("histogram", "a", Absent)>>),
                               DecodeError))) :
             st \in StatsInputs}

(***************************************************************************)
(* Inputs of the upload handler.                                           *)
(***************************************************************************)
\* A filename is its dot-separated parts; "" is the empty sequence.
Lower(part) ==
    CASE part = "CSV" -> "csv"
      [] part = "Csv" -> "csv"
      [] part = "TXT" -> "txt"
      [] OTHER -> part

\* Mutant of validate_csv: any extension of the name may be csv.
ValidateAnyExtension(filename) ==
    \E i \in 2..Len(filename) : Lower(filename[i]) \in {"csv"}

\* validate_csv: a dot in the name and a last extension that lowers to csv.
validate_csv(filename) ==
    Len(filename) > 1 /\ Lower(filename[Len(filename)]) \in {"csv"}

\* secure_filename leaves names of ASCII letters and inner dots unchanged.
secure_filename(filename) == filename

CsvNames == {<<"data", "csv">>, <<"sales", "CSV">>}

UploadNames ==
    CsvNames \cup {<<"data", "csv", "txt">>, <<"csv">>, <<>>}

\* The content of an uploaded file: what read_csv makes of it.
NoFrame == Frame(<<>>, 0, 0, <<>>)

Missing == [exists |-> FALSE, parses |-> FALSE, df |-> NoFrame]

Csv(parses, df) == [exists |-> TRUE, parses |-> parses, df |-> df]

\* A file with the columns age (numeric, 1 value of 20 missing) and city
\* (strings, none missing), one of its rows a duplicate.
AgeCity ==
    Frame(<<Column("age", "float64"), Column("city", "object")>>, 20, 19,
          <<1, 0>>)

UploadFrames ==
    {Frame(<<Column("a", "int64")>>, 2, 2, <<0>>),
     AgeCity,
     Frame(<<Column("a", "object")>>, 0, 0, <<0>>)}

CsvFiles == {Csv(FALSE, NoFrame)} \cup {Csv(TRUE, f) : f \in UploadFrames}

\* The answers of the model to a summary prompt: an exception, a good
\* answer, a short one and an apology.
SummaryLlm ==
    {Llm(TRUE, NoText)}
    \cup {Llm(FALSE, Text(n, a, "none", DecodeError, DecodeError)) :
             n \in {MinResponseLen - 1, MinResponseLen}, a \in BOOLEAN}

\* The users who are logged in.
Users == {"ann", "bob"}

\* The answers of the model during an upload.
UploadLlm ==
    {Llm(TRUE, NoText),
     Llm(FALSE, Text(MinResponseLen, FALSE, "none",
                     Array(<<Dict("bar", "age", Absent)>>), DecodeError)),
     Llm(FALSE, Text(MinResponseLen, FALSE, "none", Object(2), DecodeError))}

\* The position of a column in the dataframe.
ColumnIndex(df, name) ==
    CHOOSE i \in 1..Len(df.columns) : df.columns[i].name = name

\* The rows of DataFrame.describe() for numerical columns.
DescribeIndex ==
    {"count", "mean", "std", "min", "25%", "50%", "75%", "max"}

\* An empty dict.
EmptyMap == <<>>

\* Mutant of get_dataset_stats: the except block returns a dict without the
\* keys describe and info.
StatsWithBareExcept(df, step_raises) ==
    IF step_raises
        THEN [shape |-> <<df.rows, Len(df.columns)>>,
              total_null_values |-> 0,
              column_null_values |-> EmptyMap,
              dtypes |-> EmptyMap,
              head |-> EmptyMap]
    ELSE [shape |-> <<df.rows, Len(df.columns)>>,
          total_null_values |-> Sum(df.nulls),
          column_null_values |->
              [n \in ColumnNames(df) |-> df.nulls[ColumnIndex(df, n)]],
          dtypes |->
              [n \in ColumnNames(df) |-> df.columns[ColumnIndex(df, n)].dtype],
          head |-> [n \in ColumnNames(df) |-> Min(df.rows, HeadRows)],
          describe |->
              IF Len(NumericalColumns(df)) = 0 \/ df.rows = 0 THEN EmptyMap
              ELSE [stat \in DescribeIndex |-> Len(NumericalColumns(df))],
          info |-> [columns |-> Names(df.columns),
                    non_null_counts |->
                        [n \in ColumnNames(df) |->
                            df.rows - df.nulls[ColumnIndex(df, n)]],
                    memory_usage |-> df.rows * Len(df.columns)]]

\* Mutant of get_dataset_stats: the snapshot is taken of the cleaned
\* dataframe.
StatsAfterCleaning(df, step_raises) ==
    LET cleaned == clean_dataframe(df)
    IN  [shape |-> <<cleaned.rows, Len(cleaned.columns)>>,
         total_null_values |-> Sum(cleaned.nulls),
         column_null_values |->
             [n \in ColumnNames(df) |-> cleaned.nulls[ColumnIndex(df, n)]],
         dtypes |->
             [n \in ColumnNames(df) |->
                 cleaned.columns[ColumnIndex(df, n)].dtype],
         head |-> [n \in ColumnNames(df) |-> Min(cleaned.rows, HeadRows)],
         describe |->
             IF Len(NumericalColumns(cleaned)) = 0 \/ cleaned.rows = 0
                 THEN EmptyMap
             ELSE [stat \in DescribeIndex |-> Len(NumericalColumns(cleaned))],
         info |-> [columns |-> Names(df.columns),
                   non_null_counts |->
                       [n \in ColumnNames(df) |-> cleaned.rows],
                   memory_usage |-> cleaned.rows * Len(cleaned.columns)]]

\* get_dataset_stats: the snapshot built in the try block or, when a step
\* of the try block raises, the minimal snapshot of the except block.  A
\* dict is a function of its keys; head holds the number of values listed
\* for a column, describe the number of values listed for a statistic.
get_dataset_stats(df, step_raises) ==
    IF step_raises
        THEN [shape |-> <<df.rows, Len(df.columns)>>,
              total_null_values |-> 0,
              column_null_values |-> EmptyMap,
              dtypes |-> EmptyMap,
              head |-> EmptyMap,
              describe |-> EmptyMap,
              info |-> [columns |-> Names(df.columns),
                        non_null_counts |-> EmptyMap,
                        memory_usage |-> 0]]
    ELSE [shape |-> <<df.rows, Len(df.columns)>>,
          total_null_values |-> Sum(df.nulls),
          column_null_values |->
              [n \in ColumnNames(df) |-> df.nulls[ColumnIndex(df, n)]],
          dtypes |->
              [n \in ColumnNames(df) |-> df.columns[ColumnIndex(df, n)].dtype],
          head |-> [n \in ColumnNames(df) |-> Min(df.rows, HeadRows)],
          describe |->
              IF Len(NumericalColumns(df)) = 0 \/ df.rows = 0 THEN EmptyMap
              ELSE [stat \in DescribeIndex |-> Len(NumericalColumns(df))],
          info |-> [columns |-> Names(df.columns),
                    non_null_counts |->
                        [n \in ColumnNames(df) |->
                            df.rows - df.nulls[ColumnIndex(df, n)]],
                    memory_usage |-> df.rows * Len(df.columns)]]

\* The snapshot as _build_suggestion_prompt reads it: a dict with the keys
\* shape and total_null_values.
StatsOf(snapshot) ==
    Stats("dict", "n/a", ListShape(snapshot.shape),
          Nulls(snapshot.total_null_values))

(***************************************************************************)
(* State.                                                                  *)
(***************************************************************************)
VARIABLES
    sessions,        \* committed analysis_sessions rows
    visualizations,  \* committed visualizations rows, in id order
    pending,         \* rows added to db.session and not yet committed
    files,           \* the upload folder: filename -> content
    pc,              \* position of the upload handler
    req,             \* the locals of the current (or last) upload request
    uploads,         \* upload requests started
    reply,           \* the last answer of generate_summary or delete_session
    call,            \* arguments of a get_visualization_suggestions call
    eng,             \* position and locals of that call
    util             \* a call of a renderer, cleaner, profiler or summarizer
                     \* function: its arguments and its outcome

vars == <<sessions, visualizations, pending, files, pc, req, uploads, reply,
          call, eng, util>>

store == <<sessions, visualizations, pending, files, pc, req, uploads, reply>>

(***************************************************************************)
(* get_visualization_suggestions, statement by statement (lines 20-22).    *)
(***************************************************************************)
NoPrompt ==
    [rows |-> 0, cols |-> 0, nulls |-> 0, numerical |-> <<>>,
     categorical |-> <<>>, keywords |-> {}]

EngineStart ==
    [pc |-> "prompt", prompt |-> NoPrompt, response |-> NoText,
     raised |-> "none", value |-> <<>>]

BuildPrompt ==
    /\ eng.pc = "prompt"
    /\ LET r == _build_suggestion_prompt(call.columns, call.dataset_stats)
       IN  eng' = IF r.raised # "none"
                      THEN [eng EXCEPT !.pc = "raised", !.raised = r.raised]
                  ELSE [eng EXCEPT !.pc = "ask", !.prompt = r.value]
    /\ UNCHANGED <<store, call, util>>

AskModel ==
    /\ eng.pc = "ask"
    /\ eng' = [eng EXCEPT !.pc = "parse",
                          !.response = _get_ai_response(eng.prompt, call.llm)]
    /\ UNCHANGED <<store, call, util>>

ParseResponse ==
    /\ eng.pc = "parse"
    /\ LET r == _parse_ai_response(eng.response, call.columns)
       IN  eng' = IF r.raised # "none"
                      THEN [eng EXCEPT !.pc = "raised", !.raised = r.raised]
                  ELSE [eng EXCEPT !.pc = "returned", !.value = r.value]
    /\ UNCHANGED <<store, call, util>>

(***************************************************************************)
(* The upload handler (routes.py, upload).                                 *)
(***************************************************************************)
\* What is left of a request when the handler has returned: who asked for
\* what, the session it created, its log of charts and its answer.
Answered(r) ==
    [user |-> r.user, present |-> r.present, submitted |-> r.submitted,
     filename |-> r.filename, df |-> NoFrame, df_clean |-> NoFrame,
     dataset_stats |-> EmptyDict, session_id |-> r.session_id,
     suggestions |-> <<>>, i |-> 0, charts |-> r.charts, faults |-> 0,
     result |-> r.result, failed |-> r.failed]

NoRequest ==
    [user |-> "nobody", present |-> FALSE, submitted |-> <<>>,
     filename |-> <<>>, df |-> NoFrame, df_clean |-> NoFrame,
     dataset_stats |-> EmptyDict, session_id |-> 0, suggestions |-> <<>>,
     i |-> 0, charts |-> <<>>, faults |-> 0, result |-> "none",
     failed |-> "none"]

essential_visualizations ==
    <<Dict("heatmap", "all_numerical", "all_numerical"),
      Dict("box", "all_numerical", Absent)>>

\* A Visualization row; suggestion.get('y') is None for a missing key.
Visualization(session_id, suggestion, graph_data, insights, graph_description) ==
    [session_id |-> session_id, graph_type |-> suggestion.type,
     x_column |-> suggestion.x, y_column |-> Get(suggestion.y),
     graph_path |-> graph_data, insights |-> insights,
     graph_description |-> graph_description]

\* One entry of the handler's log of render+store steps.
Chart(suggestion, outcome) ==
    [graph_type |-> suggestion.type, x |-> suggestion.x,
     y |-> Get(suggestion.y), outcome |-> outcome]

\* The integer primary key of a new row: one more than the largest id.
NextId(rows) ==
    IF rows = {} THEN 1
    ELSE 1 + CHOOSE m \in {r.id : r \in rows} :
                 \A r \in rows : r.id <= m

\* Lines 200-206: rollback, remove the file, report the error.
FailUpload(stage) ==
    /\ pending' = <<>>
    /\ files' = [files EXCEPT ![req.filename] = Missing]
    /\ req' = Answered([req EXCEPT !.result = "error", !.failed = stage])
    /\ pc' = "idle"

\* Lines 73-88: the request is rejected, or the file is saved.
Upload ==
    /\ pc = "idle"
    /\ uploads < MaxUploads
    /\ uploads' = uploads + 1
    /\ \E current_user \in Users, present \in BOOLEAN,
          filename \in UploadNames, data \in CsvFiles :
          \* a request without a 'file' part has no filename
          /\ ~present => filename = <<>>
          /\ LET asked == [NoRequest EXCEPT !.user = current_user,
                                            !.present = present,
                                            !.submitted = filename]
             IN  IF ~present \/ filename = <<>>
                     THEN /\ req' = [asked EXCEPT !.result = "no_file"]
                          /\ UNCHANGED <<files, pc>>
                 ELSE IF ~validate_csv(filename)
                     THEN /\ req' = [asked EXCEPT !.result = "invalid"]
                          /\ UNCHANGED <<files, pc>>
                 ELSE /\ req' = [asked EXCEPT
                                     !.filename = secure_filename(filename)]
                      /\ files' = [files EXCEPT
                                       ![secure_filename(filename)] = data]
                      /\ pc' = "read"
    /\ UNCHANGED <<sessions, visualizations, pending, reply, call, eng, util>>

\* Line 92: pd.read_csv raises on a file it cannot parse.
ReadCsv ==
    /\ pc = "read"
    /\ IF ~files[req.filename].parses
           THEN FailUpload("read")
       ELSE /\ req' = [req EXCEPT !.df = files[req.filename].df]
            /\ pc' = "session"
            /\ UNCHANGED <<pending, files>>
    /\ UNCHANGED <<sessions, visualizations, uploads, reply, call, eng, util>>

\* Lines 96-118: statistics, cleaning, then the session row is added and
\* committed at once; the commit raises when the database fails.
CreateSession ==
    /\ pc = "session"
    /\ \E db_ok \in BOOLEAN :
          IF db_ok
              THEN LET id == NextId(sessions)
                       dataset_stats == get_dataset_stats(req.df, FALSE)
                   IN  /\ sessions' = sessions \cup
                              {[id |-> id, user_id |-> req.user,
                                filename |-> req.filename,
                                dataset_stats |-> dataset_stats]}
                       /\ req' = [req EXCEPT
                                     !.dataset_stats = StatsOf(dataset_stats),
                                     !.df_clean = clean_dataframe(req.df),
                                     !.session_id = id]
                       /\ pc' = "suggest"
                       /\ UNCHANGED <<pending, files>>
          ELSE FailUpload("session_commit") /\ UNCHANGED sessions
    /\ UNCHANGED <<visualizations, uploads, reply, call, eng, util>>

\* Lines 121-128: column info, GenAIAnalyzer() (OpenAI() raises without an
\* API key), get_visualization_suggestions.
Suggest ==
    /\ pc = "suggest"
    /\ \E api_key \in BOOLEAN, llm \in UploadLlm :
          LET column_info == get_column_info(req.df_clean)
              r == get_visualization_suggestions(column_info,
                                                 req.dataset_stats, llm)
          IN  IF ~api_key \/ r.raised # "none"
                  THEN FailUpload("suggest")
              ELSE /\ req' = [req EXCEPT !.suggestions = r.value, !.i = 1]
                   /\ pc' = "essential"
                   /\ UNCHANGED <<pending, files>>
    /\ UNCHANGED <<sessions, visualizations, uploads, reply, call, eng, util>>

\* One pass of a render loop: render, build the row, add it to db.session;
\* an exception skips the row (except ... continue).
RenderAndStore(suggestion, insights, next_pc, next_i) ==
    \E draw \in {"ok", "fails", "crashes"} :
        /\ draw = "ok" \/ req.faults < MaxFaults
        /\ LET r == generate_visualization(req.df_clean, suggestion.type,
                                           suggestion.x, Get(suggestion.y),
                                           draw)
               faults == IF draw = "ok" THEN req.faults ELSE req.faults + 1
           IN  IF r.raised # "none"
                   THEN /\ req' = [req EXCEPT
                                      !.charts = Append(@, Chart(suggestion,
                                                                 "raised")),
                                      !.i = next_i, !.faults = faults]
                        /\ pc' = next_pc
                        /\ UNCHANGED pending
               ELSE /\ pending' =
                          Append(pending,
                                 Visualization(req.session_id, suggestion,
                                               r.value.graph_data, insights,
                                               r.value.description))
                    /\ req' = [req EXCEPT
                                  !.charts = Append(@, Chart(suggestion,
                                                 r.value.graph_data.image)),
                                  !.i = next_i, !.faults = faults]
                    /\ pc' = next_pc

Limit(suggestions) == Min(MaxSuggestions, Len(suggestions))

\* Lines 137-161: the loop over the two essential visualizations.
RenderEssential ==
    /\ pc = "essential"
    /\ LET last == req.i = Len(essential_visualizations)
       IN  RenderAndStore(essential_visualizations[req.i],
               "Essential visualization - correlation and outlier analysis",
               IF ~last THEN "essential"
               ELSE IF Limit(req.suggestions) = 0 THEN "commit"
               ELSE "suggested",
               IF last THEN 1 ELSE req.i + 1)
    /\ UNCHANGED <<sessions, visualizations, files, uploads, reply, call, eng, util>>

\* Lines 164-193: the loop over suggestions[:5]; a suggestion that is no
\* dict or has no type or x key is skipped.
RenderSuggested ==
    /\ pc = "suggested"
    /\ LET suggestion == req.suggestions[req.i]
           next_pc == IF req.i = Limit(req.suggestions) THEN "commit"
                      ELSE "suggested"
       IN  IF ~suggestion.isdict \/ suggestion.type = Absent
              \/ suggestion.x = Absent
               THEN /\ req' = [req EXCEPT !.i = req.i + 1]
                    /\ pc' = next_pc
                    /\ UNCHANGED pending
           ELSE RenderAndStore(suggestion,
                    "Click 'Generate Insights' for AI analysis",
                    next_pc, req.i + 1)
    /\ UNCHANGED <<sessions, visualizations, files, uploads, reply, call, eng, util>>

\* The flush of the pending rows binds graph_path as a string; a tuple
\* cannot be bound and the commit raises.
Bindable(rows) == \A k \in 1..Len(rows) : rows[k].graph_path.py = "str"

\* The rows of the visualizations table, as a set.
StoredRows == {visualizations[k] : k \in 1..Len(visualizations)}

\* The flush inserts the pending rows in order; each gets the next id.
Inserted(rows) ==
    [k \in 1..Len(rows) |->
        [id |-> NextId(StoredRows) + k - 1,
         session_id |-> rows[k].session_id,
         graph_type |-> rows[k].graph_type,
         x_column |-> rows[k].x_column,
         y_column |-> rows[k].y_column,
         graph_path |-> rows[k].graph_path,
         insights |-> rows[k].insights,
         graph_description |-> rows[k].graph_description]]

\* Lines 195-198: the final commit.
Commit ==
    /\ pc = "commit"
    /\ \E db_ok \in BOOLEAN :
          IF ~db_ok THEN FailUpload("final_commit_db")
                         /\ UNCHANGED visualizations
          ELSE IF ~Bindable(pending)
              THEN FailUpload("final_commit_bind") /\ UNCHANGED visualizations
          ELSE /\ visualizations' = visualizations \o Inserted(pending)
               /\ pending' = <<>>
               /\ req' = Answered([req EXCEPT !.result = "success"])
               /\ pc' = "idle"
               /\ UNCHANGED files
    /\ UNCHANGED <<sessions, uploads, reply, call, eng, util>>

(***************************************************************************)
(* delete_session and generate_summary (routes.py).  Requests are handled  *)
(* one after the other: each of these handlers is one step, taken while no *)
(* upload is in progress.                                                  *)
(***************************************************************************)
Reply(handler, id, answer, insights) ==
    [n |-> reply.n + 1, handler |-> handler, id |-> id, answer |-> answer,
     insights |-> insights]

\* The ids a request may name: those of the stored rows and one of no row.
SessionIds == {s.id : s \in sessions} \cup {0}

VisualizationIds == {v.id : v \in StoredRows} \cup {0}

SessionOf(id) == CHOOSE s \in sessions : s.id = id

\* Mutant of DeleteSession: the rows of the visualizations stay.
DeleteSessionOnly ==
    /\ pc = "idle"
    /\ reply.n < MaxRequests
    /\ \E current_user \in Users, session_id \in SessionIds, db_ok \in BOOLEAN :
          IF ~\E s \in sessions : s.id = session_id
              THEN /\ reply' = Reply("delete_session", session_id, "404", "none")
                   /\ UNCHANGED <<sessions, visualizations>>
          ELSE IF SessionOf(session_id).user_id # current_user
              THEN /\ reply' = Reply("delete_session", session_id, "denied", "none")
                   /\ UNCHANGED <<sessions, visualizations>>
          ELSE IF ~db_ok
              THEN /\ reply' = Reply("delete_session", session_id, "error", "none")
                   /\ UNCHANGED <<sessions, visualizations>>
          ELSE /\ sessions' = sessions \ {SessionOf(session_id)}
               /\ reply' = Reply("delete_session", session_id, "deleted", "none")
               /\ UNCHANGED visualizations
    /\ UNCHANGED <<pending, files, pc, req, uploads, call, eng, util>>

\* delete_session: 404 for an unknown id; nothing for a session of another
\* user; else the visualizations of the session and the session are
\* deleted and committed together, or rolled back when the commit raises.
DeleteSession ==
    /\ pc = "idle"
    /\ reply.n < MaxRequests
    /\ \E current_user \in Users, session_id \in SessionIds, db_ok \in BOOLEAN :
          IF ~\E s \in sessions : s.id = session_id
              THEN /\ reply' = Reply("delete_session", session_id, "404", "none")
                   /\ UNCHANGED <<sessions, visualizations>>
          ELSE IF SessionOf(session_id).user_id # current_user
              THEN /\ reply' = Reply("delete_session", session_id, "denied", "none")
                   /\ UNCHANGED <<sessions, visualizations>>
          ELSE IF ~db_ok
              THEN /\ reply' = Reply("delete_session", session_id, "error", "none")
                   /\ UNCHANGED <<sessions, visualizations>>
          ELSE /\ visualizations' =
                      SelectSeq(visualizations,
                                LAMBDA v : v.session_id # session_id)
               /\ sessions' = sessions \ {SessionOf(session_id)}
               /\ reply' = Reply("delete_session", session_id, "deleted", "none")
    /\ UNCHANGED <<pending, files, pc, req, uploads, call, eng, util>>

\* Lines 44-50: the range and mean of a column of the file are formatted
\* with :.1f, which raises for the values of a column that is not numerical
\* (min() of a column without a value is nan, which is formatted).
StatsRaise(df, column) ==
    /\ Truthy(column)
    /\ column \in ColumnNames(df)
    /\ df.columns[ColumnIndex(df, column)].dtype \notin {"int64", "float64"}
    /\ df.rows > df.nulls[ColumnIndex(df, column)]

\* Mutant of generate_summary's outcome: the insights are written before
\* the commit and stay when the commit raises.
SummaryKeptOnError(viz, current_user, api_key, db_ok, llm) ==
    LET session == SessionOf(viz.session_id)
        file == files[session.filename]
        summary == get_graph_summary(viz.graph_type, viz.x_column,
                                     viz.y_column, viz.graph_description,
                                     llm).sentence
    IN  IF session.user_id # current_user
            THEN [answer |-> "error", insights |-> viz.insights]
        ELSE IF ~file.exists \/ ~file.parses
            THEN [answer |-> "error", insights |-> viz.insights]
        ELSE IF StatsRaise(file.df, viz.x_column)
                \/ StatsRaise(file.df, viz.y_column)
            THEN [answer |-> "error", insights |-> viz.insights]
        ELSE IF ~api_key
            THEN [answer |-> "error", insights |-> viz.insights]
        ELSE IF ~db_ok
            THEN [answer |-> "error", insights |-> summary]
        ELSE [answer |-> "success", insights |-> summary]

\* Lines 34-67 for a visualization whose session exists: the answer and the
\* insights the row holds afterwards.
SummaryOutcome(viz, current_user, api_key, db_ok, llm) ==
    LET session == SessionOf(viz.session_id)
        file == files[session.filename]
        summary == get_graph_summary(viz.graph_type, viz.x_column,
                                     viz.y_column, viz.graph_description,
                                     llm).sentence
    IN  IF session.user_id # current_user
            THEN [answer |-> "error", insights |-> viz.insights]
        ELSE IF ~file.exists \/ ~file.parses
            THEN [answer |-> "error", insights |-> viz.insights]
        ELSE IF StatsRaise(file.df, viz.x_column)
                \/ StatsRaise(file.df, viz.y_column)
            THEN [answer |-> "error", insights |-> viz.insights]
        ELSE IF ~api_key
            THEN [answer |-> "error", insights |-> viz.insights]
        ELSE IF ~db_ok
            THEN [answer |-> "error", insights |-> viz.insights]
        ELSE [answer |-> "success", insights |-> summary]

\* generate_summary: 404 for an unknown visualization or session; else the
\* insights of the row are replaced and committed, or an error is answered.
GenerateSummary ==
    /\ pc = "idle"
    /\ reply.n < MaxRequests
    /\ \E current_user \in Users, viz_id \in VisualizationIds,
          api_key \in BOOLEAN, db_ok \in BOOLEAN, llm \in SummaryLlm :
          LET k == CHOOSE k \in 1..Len(visualizations) :
                       visualizations[k].id = viz_id
          IN  IF \/ viz_id \notin {v.id : v \in StoredRows}
                 \/ ~\E s \in sessions : s.id = visualizations[k].session_id
                  THEN /\ reply' = Reply("generate_summary", viz_id, "404", "none")
                       /\ UNCHANGED visualizations
              ELSE LET r == SummaryOutcome(visualizations[k], current_user,
                                           api_key, db_ok, llm)
                   IN  /\ visualizations' =
                              [visualizations EXCEPT ![k].insights = r.insights]
                       /\ reply' = Reply("generate_summary", viz_id, r.answer,
                                         IF r.answer = "success"
                                             THEN r.insights ELSE "none")
    /\ UNCHANGED <<sessions, pending, files, pc, req, uploads, call, eng,
                   util>>

(***************************************************************************)
(* Calls of the renderer and of the summarizer on their own.               *)
(***************************************************************************)
NoResult == Return(<<>>)

UtilCall(fn, args) ==
    [fn |-> fn, pc |-> "call", args |-> args, result |-> NoResult]

\* The outcome of a call that returns or raises.
Done(r) ==
    [util EXCEPT !.pc = IF r.raised # "none" THEN "raised" ELSE "returned",
                 !.result = r]

\* Dataframes given to the renderer: cleaned uploads, a dataframe that was
\* not cleaned and one with a bool column.
RenderFrames ==
    {clean_dataframe(f) : f \in UploadFrames}
    \cup {Frame(<<Column("a", "object")>>, 2, 2, <<0>>),
          Frame(<<Column("a", "int64"), Column("b", "bool")>>, 2, 2, <<0, 0>>)}

RenderTypes == {"histogram", "bar", "line", "heatmap", "box"}

RenderCalls ==
    {UtilCall("generate_visualization",
              [df |-> df, graph_type |-> t, x_col |-> x, y_col |-> y,
               draw |-> d]) :
        df \in RenderFrames, t \in RenderTypes,
        x \in {"a", "b", "ghost", "all_numerical"},
        y \in {None, "", "a", "b", "ghost", "all_numerical"},
        d \in {"ok", "fails", "crashes"}}

Render ==
    /\ util.pc = "call"
    /\ util.fn = "generate_visualization"
    /\ util' = Done(generate_visualization(util.args.df, util.args.graph_type,
                                           util.args.x_col, util.args.y_col,
                                           util.args.draw))
    /\ UNCHANGED <<store, call, eng>>

\* The descriptions given to the summarizer: those the renderer writes for
\* the graph type and one that names no graph type.
SummaryDescriptions(graph_type, x_col, y_col) ==
    {_create_figure_with_description(graph_type, x_col, y_col),
     Description("Error:", {}, {}),
     Description("Correlation heatmap showing relationships between numerical variables",
                 {}, {"heatmap"})}

SummaryCalls ==
    UNION {{UtilCall("get_graph_summary",
                     [graph_type |-> t, x_col |-> x, y_col |-> y,
                      graph_description |-> d, llm |-> l]) :
               d \in SummaryDescriptions(t, x, y), l \in SummaryLlm} :
           t \in TemplateTypes \cup {"scatter"},
           x \in {"a", "baseline", "all_numerical"},
           y \in {None, "b", "barcode"}}

\* The tables given to the cleaner: one or two object columns, at most
\* MaxRows rows, every cell a string or missing.
CellValues == {"10", "9", "a", NaN}

CleanTables(ncols) == SeqsOver([1..ncols -> CellValues], 0, MaxRows)

Clean ==
    /\ util.pc = "call"
    /\ util.fn = "clean_dataframe"
    /\ util' = Done(Return(CleanCells(util.args.rows, util.args.ncols)))
    /\ UNCHANGED <<store, call, eng>>

\* The tables with a float64 and an object column given to the cleaner:
\* at most MaxRows rows, every cell a value or missing.
FloatValues == {Float(2), Float(4), Float(8), NanFloat}

ObjectValues == {"9", "a", NaN}

FloatObjectTables ==
    SeqsOver({<<f, o>> : f \in FloatValues, o \in ObjectValues}, 0, MaxRows)

CleanFloatObjectTable ==
    /\ util.pc = "call"
    /\ util.fn = "clean_dataframe(float64, object)"
    /\ util' = Done(Return(CleanFloatObject(util.args.rows)))
    /\ UNCHANGED <<store, call, eng>>

\* The dataframes given to the profiler: what read_csv returns, with and
\* without rows and missing cells; a step of the try block raises or not.
StatsCalls ==
    {UtilCall("get_dataset_stats", [df |-> df, step_raises |-> e]) :
        df \in RawFrames \cup UploadFrames, e \in BOOLEAN}

Profile ==
    /\ util.pc = "call"
    /\ util.fn = "get_dataset_stats"
    /\ util' = Done(Return(get_dataset_stats(util.args.df,
                                             util.args.step_raises)))
    /\ UNCHANGED <<store, call, eng>>

\* The dataframes given to get_column_info: no column or some, of every
\* storage dtype of pandas the upload or a caller can hold, with and without
\* rows.
AllDtypes ==
    {"int64", "float64", "bool", "object", "category", "datetime64[ns]",
     "datetime64[ns, UTC]", "timedelta64[ns]"}

ColumnInfoFrames(n) ==
    {Frame([i \in 1..n |-> Column(ColName(i), t[i])], r, r, NoNulls(n)) :
        t \in [1..n -> AllDtypes], r \in {0, 2}}

ColumnInfo ==
    /\ util.pc = "call"
    /\ util.fn = "get_column_info"
    /\ util' = Done(Return(get_column_info(util.args.df)))
    /\ UNCHANGED <<store, call, eng>>

\* The correlation matrices df[numerical_cols].corr() returns for 2 to 4
\* numerical columns.  A column rises or falls with a common factor, is
\* independent of every other column, or is constant; two columns that
\* follow the factor correlate with +rho or -rho, an independent column
\* with 0.00, and a constant column has nan in its row and column.
ColumnKinds == {"rises", "falls", "independent", "constant"}

Rhos == {StrongThreshold, StrongThreshold + 1, 95}

corr(kind, i, j, rho) ==
    IF kind[i] = "constant" \/ kind[j] = "constant" THEN NanCoefficient
    ELSE IF i = j THEN Coefficient(100)
    ELSE IF kind[i] = "independent" \/ kind[j] = "independent"
        THEN Coefficient(0)
    ELSE IF kind[i] = kind[j] THEN Coefficient(rho)
    ELSE Coefficient(0 - rho)

CorrMatrices(n) ==
    {[i \in 1..n |-> [j \in 1..n |-> corr(kind, i, j, rho)]] :
        kind \in [1..n -> ColumnKinds], rho \in Rhos}

DescribeHeatmap ==
    /\ util.pc = "call"
    /\ util.fn = "_generate_correlation_heatmap"
    /\ util' = Done(Return(HeatmapDescription(util.args.corr_matrix,
                                              util.args.n)))
    /\ UNCHANGED <<store, call, eng>>

Summarize ==
    /\ util.pc = "call"
    /\ util.fn = "get_graph_summary"
    /\ util' = Done(Return(get_graph_summary(util.args.graph_type,
                                             util.args.x_col, util.args.y_col,
                                             util.args.graph_description,
                                             util.args.llm)))
    /\ UNCHANGED <<store, call, eng>>

(***************************************************************************)
(* Specifications.                                                         *)
(***************************************************************************)
IdleCall ==
    Call(<<>>, EmptyDict, Llm(TRUE, NoText))

IdleEngine == [EngineStart EXCEPT !.pc = "idle"]

\* No request answered yet; no utility function called.
NoReply == [n |-> 0, handler |-> "none", id |-> 0, answer |-> "none",
            insights |-> "none"]

NoUtil == [fn |-> "none", pc |-> "idle"]

InitStore ==
    /\ sessions = {}
    /\ visualizations = <<>>
    /\ pending = <<>>
    /\ files = [n \in UploadNames \ {<<>>} |-> Missing]
    /\ pc = "idle"
    /\ req = NoRequest
    /\ uploads = 0
    /\ reply = NoReply

Init ==
    /\ InitStore
    /\ call = IdleCall
    /\ eng = IdleEngine
    /\ util = NoUtil

Next ==
    \/ Upload
    \/ ReadCsv
    \/ CreateSession
    \/ Suggest
    \/ RenderEssential
    \/ RenderSuggested
    \/ Commit
    \/ DeleteSession
    \/ GenerateSummary

Spec == Init /\ [][Next]_vars

\* The engine alone, called with every input of EngineCalls.
InitEngine ==
    /\ InitStore
    /\ call \in EngineCalls
    /\ eng = EngineStart
    /\ util = NoUtil

NextEngine ==
    \/ BuildPrompt
    \/ AskModel
    \/ ParseResponse

SpecEngine == InitEngine /\ [][NextEngine]_vars

\* The renderer, the cleaner, the profiler and the summarizer alone, each
\* called with every input of its set.
InitUtils ==
    /\ InitStore
    /\ call = IdleCall
    /\ eng = IdleEngine
    /\ \/ util \in RenderCalls \cup SummaryCalls \cup StatsCalls
       \/ \E ncols \in {1, 2} :
              \E rows \in CleanTables(ncols) :
                  util = UtilCall("clean_dataframe",
                                  [rows |-> rows, ncols |-> ncols])
       \/ \E rows \in FloatObjectTables :
              util = UtilCall("clean_dataframe(float64, object)",
                              [rows |-> rows])
       \/ \E n \in 0..MaxCols :
              \E df \in ColumnInfoFrames(n) :
                  util = UtilCall("get_column_info", [df |-> df])
       \/ \E n \in 2..4 :
              \E corr_matrix \in CorrMatrices(n) :
                  util = UtilCall("_generate_correlation_heatmap",
                                  [corr_matrix |-> corr_matrix, n |-> n])

NextUtils ==
    \/ Render
    \/ Clean
    \/ Profile
    \/ Summarize
    \/ ColumnInfo
    \/ DescribeHeatmap
    \/ CleanFloatObjectTable

SpecUtils == InitUtils /\ [][NextUtils]_vars

(***************************************************************************)
(* Claims about the upload handler (specification Spec).                   *)
(***************************************************************************)
Returned == pc = "idle" /\ req.result \in {"success", "error"}

SessionStored(id) == \E s \in sessions : s.id = id

RowsOf(id) == SelectSeq(visualizations, LAMBDA v : v.session_id = id)

\* C1: an upload is one transaction: when the handler returns after a
\* failure at any stage after the file was accepted, the store holds no
\* session row and no visualization row created by that upload.
C1_FailedUploadLeavesNoRows ==
    (Returned /\ req.result = "error")
        => /\ ~SessionStored(req.session_id)
           /\ RowsOf(req.session_id) = <<>>

\* The place of a chart of this upload among the rows stored for it: the
\* charts whose render+store step raised have no row.
RowIndex(k) ==
    Cardinality({j \in 1..k : req.charts[j].outcome # "raised"})

ChartStored(k, image) ==
    LET rows == RowsOf(req.session_id)
    IN  /\ req.charts[k].outcome # "raised"
        /\ RowIndex(k) <= Len(rows)
        /\ rows[RowIndex(k)].graph_type = req.charts[k].graph_type
        /\ rows[RowIndex(k)].x_column = req.charts[k].x
        /\ rows[RowIndex(k)].graph_path.image = image

\* C2: when the render of one chart fails during an upload (error payload
\* returned, or the render+store step raises) and the database itself does
\* not fail, the upload completes: the final commit succeeds, the session
\* stays stored, the failed chart is stored with the error placeholder and
\* every other chart is stored with its image.
C2_ChartFailureIsIsolated ==
    (/\ Returned
     /\ req.failed \notin {"read", "session_commit", "suggest",
                           "final_commit_db"}
     /\ \E k \in 1..Len(req.charts) : req.charts[k].outcome # "chart")
        => /\ req.result = "success"
           /\ SessionStored(req.session_id)
           /\ \A k \in 1..Len(req.charts) :
                 IF req.charts[k].outcome = "chart"
                     THEN ChartStored(k, "chart")
                 ELSE \E j \in 1..Len(RowsOf(req.session_id)) :
                         LET row == RowsOf(req.session_id)[j]
                         IN  /\ row.graph_type = req.charts[k].graph_type
                             /\ row.x_column = req.charts[k].x
                             /\ row.graph_path.image = "error"

\* C3: for every upload whose CSV is accepted, loaded and cleaned (and whose
\* session row is committed), when the handler returns without a database
\* failure of the final commit and without a crashed render step, the first
\* two rows stored for the upload are the heatmap and the box plot over
\* all_numerical, whatever the Suggestion Engine did.
C3_EssentialsAlwaysStored ==
    (/\ Returned
     /\ req.session_id # 0
     /\ req.failed \notin {"final_commit_db"}
     /\ \A k \in 1..Len(req.charts) : req.charts[k].outcome # "raised")
        => LET rows == RowsOf(req.session_id)
           IN  /\ Len(rows) >= 2
               /\ rows[1].graph_type = "heatmap"
               /\ rows[1].x_column = "all_numerical"
               /\ rows[2].graph_type = "box"
               /\ rows[2].x_column = "all_numerical"

(***************************************************************************)
(* Claims about the Suggestion Engine (specification SpecEngine).          *)
(***************************************************************************)
EngineReturned == eng.pc = "returned"

InputNames == {call.columns[i].name : i \in 1..Len(call.columns)}

\* What json.loads was given: the answer of the model as _get_ai_response
\* passed it on.
Parsed == ExtractJson(eng.response)

ParsedPath == EngineReturned /\ Parsed.kind = "array"

C5_NoExcludedType ==
    EngineReturned
        => \A k \in 1..Len(eng.value) :
              Get(eng.value[k].type)
                  \notin {"heatmap", "box", "scatter", "line"}

\* A suggestion the validation must discard.
MustDiscard(s) ==
    \/ Get(s.type) \in {"heatmap", "box", "scatter"}
    \/ Get(s.x) \notin InputNames
    \/ Get(s.y) \notin {None, ""} /\ Get(s.y) \notin InputNames

\* C6: when the answer parses as a JSON array of objects and validation
\* discards every one of them, the engine returns the rule-based fallback
\* list of the columns.
C6_NothingValidFallsBack ==
    (/\ ParsedPath
     /\ Len(Parsed.items) > 0
     /\ \A k \in 1..Len(Parsed.items) : MustDiscard(Parsed.items[k]))
        => eng.value = _generate_fallback_suggestions(call.columns)

\* The model answered with a text that json.loads rejects.
NotJson ==
    /\ ~call.llm.raises
    /\ ExtractJson(call.llm.text).kind = "decode_error"

\* C7: when the model returns text that is not parseable JSON, the engine
\* returns the rule-based fallback list, and for the column descriptors the
\* pipeline supplies that list has between 1 and 5 entries.
C7_NonJsonFallsBack ==
    (eng.pc \in {"returned", "raised"} /\ NotJson)
        => /\ eng.pc = "returned"
           /\ eng.value = _generate_fallback_suggestions(call.columns)
           /\ call.columns \in PipelineColumns
                 => /\ Len(eng.value) >= 1
                    /\ Len(eng.value) <= 5
                    /\ eng.value[1].type = "histogram"
                    /\ eng.value[1].x = call.columns[1].name

\* C7 witness: a non-JSON answer for two pipeline columns, answered with
\* three rule-based suggestions.
C7_Witness ==
    /\ EngineReturned
    /\ NotJson
    /\ call.columns \in PipelineColumns
    /\ Len(call.columns) = 2
    /\ Len(eng.value) = 3

\* C8: for every outcome of the model call the engine returns a list and
\* raises nothing (the statistics being the snapshot dict of the pipeline).
C8_ModelNeverMakesEngineRaise ==
    call.dataset_stats.py = "dict" => eng.pc # "raised"

\* The statistics are neither a mapping nor a JSON string of a mapping.
UnrecognizedStats ==
    /\ call.dataset_stats.py # "dict"
    /\ ~(call.dataset_stats.py = "str" /\ call.dataset_stats.json = "dict")

\* C9: for statistics of every other shape than a mapping or a JSON string
\* of one, the prompt is built from an empty mapping (rows 0, columns 0,
\* nulls 0) and nothing is raised.
C9_UnrecognizedStatsDegrade ==
    (UnrecognizedStats /\ eng.pc # "prompt")
        => /\ eng.raised = "none"
           /\ eng.prompt.rows = 0
           /\ eng.prompt.cols = 0
           /\ eng.prompt.nulls = 0

\* C10: the engine never returns more than 5 suggestions.
C10_AtMostFive ==
    EngineReturned => Len(eng.value) <= 5

\* C10 witness: an answer with more than 5 valid suggestions, of which 5
\* are returned.
C10_Witness ==
    /\ ParsedPath
    /\ Len(Parsed.items) > 5
    /\ \A k \in 1..Len(Parsed.items) : ~MustDiscard(Parsed.items[k])
    /\ Len(eng.value) = 5

(***************************************************************************)
(* Claims about the Visualization Renderer (specification SpecUtils).      *)
(***************************************************************************)
\* A call of generate_visualization that is over, for a dataframe with rows
\* and columns, in which matplotlib was able to draw the error image.
Rendered ==
    /\ util.fn = "generate_visualization"
    /\ util.pc \in {"returned", "raised"}
    /\ util.args.df.rows > 0
    /\ Len(util.args.df.columns) > 0
    /\ util.args.draw # "crashes"

Dispatched ==
    /\ util.args.graph_type \in {"heatmap", "box"}
    /\ util.args.x_col = "all_numerical"

XMissing ==
    /\ util.args.x_col \notin ColumnNames(util.args.df)
    /\ util.args.x_col # "all_numerical"

\* A y column is given when it is neither None nor the empty string.
YMissing ==
    /\ util.args.y_col \notin {None, ""}
    /\ util.args.y_col \notin ColumnNames(util.args.df)

\* The result is the error payload with a description that names column c.
NamesMissing(axis, c) ==
    /\ util.pc = "returned"
    /\ util.result.value.graph_data.image = "error"
    /\ util.result.value.graph_data.message.text = axis
    /\ util.result.value.graph_data.message.columns = {c}
    /\ util.result.value.description.columns = {c}
    /\ util.result.value.description.words = {}

C12_HeatmapNeedsTwoColumns ==
    (/\ Rendered
     /\ util.args.graph_type = "heatmap"
     /\ util.args.x_col = "all_numerical"
     /\ Len(NumericalColumns(util.args.df)) < 2)
        => /\ util.pc = "returned"
           /\ util.result.value.graph_data.image = "error"
           /\ util.result.value.graph_data.message.text
                 = "Not enough numerical columns for heatmap"
           /\ util.result.value.description.text
                 = "Insufficient numerical columns (need at least 2) for correlation analysis"
           /\ "heatmap" \notin util.result.value.description.words

\* C12 witness: the essential heatmap request for a dataframe with exactly
\* one numerical column, answered with the error image.
C12_Witness ==
    /\ Rendered
    /\ util.args.graph_type = "heatmap"
    /\ util.args.x_col = "all_numerical"
    /\ util.args.y_col = "all_numerical"
    /\ Len(NumericalColumns(util.args.df)) = 1
    /\ util.result.value.graph_data.image = "error"

(***************************************************************************)
(* Claims about the Cleaner (specification SpecUtils).                     *)
(***************************************************************************)
Cleaned == util.fn = "clean_dataframe" /\ util.pc = "returned"

\* The values of column c after deduplication and fill.
FilledValues(c) ==
    {IF util.result.value.kept[i][c] = NaN
         THEN util.result.value.fill[c]
     ELSE util.result.value.kept[i][c] :
        i \in 1..Len(util.result.value.kept)}

\* C13: for every encoded column the keys of its Encoding Map entry are
\* exactly 0..k-1, k being the number of distinct values of the column
\* after the fill, its values are exactly those values, and a smaller code
\* maps to a value that sorts before the value of a larger code.
C13_CodesAreSortedRanks ==
    Cleaned
        => \A c \in 1..util.args.ncols :
              LET mapping == util.result.value.encoding_mappings[c]
                  k == Cardinality(FilledValues(c))
              IN  /\ DOMAIN mapping = 0..(k - 1)
                  /\ {mapping[i] : i \in DOMAIN mapping} = FilledValues(c)
                  /\ \A i, j \in DOMAIN mapping :
                        i < j => Rank(mapping[i]) < Rank(mapping[j])

\* C13 witness: a column whose values first appear in another order than
\* the sorted one ("9" before "10") and that has a missing cell, encoded
\* with three codes.
C13_Witness ==
    /\ Cleaned
    /\ util.args.ncols = 1
    /\ Len(util.args.rows) = 3
    /\ util.args.rows[1][1] = "9"
    /\ util.args.rows[2][1] = "10"
    /\ util.args.rows[3][1] = NaN
    /\ DOMAIN util.result.value.encoding_mappings[1] = 0..1

\* C14: for every encoded column and every row kept by the deduplication,
\* the Encoding Map entry of the column maps the encoded cell to the
\* original string of the cell, or to the fill value when the original
\* cell was missing.
C14_EncodingRoundTrip ==
    Cleaned
        => \A c \in 1..util.args.ncols :
              \A i \in 1..Len(util.result.value.kept) :
                 LET original == util.result.value.kept[i][c]
                     code == util.result.value.df_clean[i][c]
                     mapping == util.result.value.encoding_mappings[c]
                 IN  /\ code \in DOMAIN mapping
                     /\ mapping[code] = IF original = NaN
                                            THEN util.result.value.fill[c]
                                        ELSE original

\* C14 witness: a table of two columns with a duplicate row dropped, a
\* missing cell filled and two different values encoded.
C14_Witness ==
    /\ Cleaned
    /\ util.args.ncols = 2
    /\ Len(util.result.value.kept) = 2
    /\ Len(util.args.rows) = 3
    /\ \E i \in 1..2 : util.result.value.kept[i][1] = NaN
    /\ Cardinality(DOMAIN util.result.value.encoding_mappings[2]) = 2

(***************************************************************************)
(* Claims about the Statistics Summarizer (specification SpecUtils).       *)
(***************************************************************************)
SnapshotKeys ==
    {"shape", "total_null_values", "column_null_values", "dtypes", "head",
     "describe", "info"}

InfoKeys == {"columns", "non_null_counts", "memory_usage"}

\* C15: every call of get_dataset_stats, for a dataframe with or without
\* rows and also when a step of its try block raises, returns (it does not
\* raise) a mapping with exactly the keys of the snapshot, whose info has
\* the keys columns, non_null_counts and memory_usage.
C15_SnapshotIsWellFormed ==
    (util.fn = "get_dataset_stats" /\ util.pc # "call")
        => /\ util.pc = "returned"
           /\ DOMAIN util.result.value = SnapshotKeys
           /\ DOMAIN util.result.value.info = InfoKeys

\* C15 witness: a dataframe without rows whose snapshot is the minimal one
\* of the except block.
C15_Witness ==
    /\ util.fn = "get_dataset_stats"
    /\ util.pc = "returned"
    /\ util.args.step_raises
    /\ util.args.df.rows = 0
    /\ util.result.value.describe = EmptyMap
    /\ util.result.value.info.columns = Names(util.args.df.columns)

(***************************************************************************)
(* Claims about the Insight Summarizer (specification SpecUtils).          *)
(***************************************************************************)
\* The model answered a get_graph_summary call with a text that is too
\* short or contains 'sorry' or 'error'.
Discarded ==
    /\ util.fn = "get_graph_summary"
    /\ util.pc = "returned"
    /\ ~util.args.llm.raises
    /\ \/ util.args.llm.text.len < MinResponseLen
       \/ util.args.llm.text.apology

\* C17: for each of the seven chart types and every x, y and description, a
\* discarded answer is replaced by the fallback sentence of the requested
\* chart type.
C17_FallbackOfRequestedType ==
    (Discarded /\ util.args.graph_type \in TemplateTypes)
        => util.result.value.sentence = util.args.graph_type


(***************************************************************************)
(* C16: the statistics snapshot stored with the session.                   *)
(***************************************************************************)
\* The upload in progress has created its session (req.df is the dataframe
\* read from the file, before cleaning).
SessionCreated ==
    pc \in {"suggest", "essential", "suggested", "commit"}

\* The missing cells a snapshot counts in columns other than age and city.
NullsOfOtherColumns(snapshot) ==
    Sum([i \in 1..Len(snapshot.info.columns) |->
            IF snapshot.info.columns[i] \in {"age", "city"} THEN 0
            ELSE snapshot.column_null_values[snapshot.info.columns[i]]])

\* C16 as stated: the snapshot stored with a session reports
\* total_null_values equal to the number of missing cells in columns other
\* than age and city, so 0 for a file whose only columns are age and city.
C16_OnlyOtherColumnsCounted ==
    \A s \in sessions :
        s.dataset_stats.total_null_values = NullsOfOtherColumns(s.dataset_stats)

\* C16, amended: the snapshot stored with the session of an upload reports
\* total_null_values equal to the number of missing cells of the file as
\* uploaded, in all of its columns, those of age and city included.
C16_AllMissingCellsCounted ==
    SessionCreated =>
        \E s \in sessions :
            /\ s.id = req.session_id
            /\ s.dataset_stats.total_null_values = Sum(req.df.nulls)
            /\ \A i \in 1..Len(req.df.columns) :
                   s.dataset_stats.column_null_values[req.df.columns[i].name]
                       = req.df.nulls[i]

\* The age/city file has been uploaded and its session stored: the snapshot
\* counts the missing cell of age.
C16_Witness ==
    /\ SessionCreated
    /\ req.df = AgeCity
    /\ \E s \in sessions :
           /\ s.id = req.session_id
           /\ s.dataset_stats.info.columns = <<"age", "city">>
           /\ s.dataset_stats.total_null_values = 1


(***************************************************************************)
(* C18: visualizations and their sessions.                                 *)
(***************************************************************************)
\* Every row of the visualizations table names a row of analysis_sessions.
NoOrphans ==
    \A v \in StoredRows : \E s \in sessions : s.id = v.session_id

\* This step is a delete_session request.
DeleteStep ==
    reply'.n = reply.n + 1 /\ reply'.handler = "delete_session"

\* C18: after any sequence of uploads, deletions and insight regenerations
\* every stored visualization belongs to a stored session; a deletion that
\* succeeds removes the session and all of its visualizations and no other
\* row, and a deletion that does not succeed removes no row at all.
C18_SessionsOwnTheirVisualizations ==
    [][/\ NoOrphans'
       /\ DeleteStep /\ reply'.answer = "deleted" =>
              /\ \E s \in sessions : s.id = reply'.id
              /\ sessions' = {s \in sessions : s.id # reply'.id}
              /\ visualizations' =
                     SelectSeq(visualizations,
                               LAMBDA v : v.session_id # reply'.id)
              /\ \A v \in StoredRows' : v.session_id # reply'.id
       /\ DeleteStep /\ reply'.answer # "deleted" =>
              sessions' = sessions /\ visualizations' = visualizations]_vars

\* The session of the last upload, which had stored charts, has been
\* deleted with them, and the charts of another session are still stored.
C18_Witness ==
    /\ reply.handler = "delete_session"
    /\ reply.answer = "deleted"
    /\ req.result = "success"
    /\ req.session_id = reply.id
    /\ \E k \in 1..Len(req.charts) : req.charts[k].outcome # "raised"
    /\ \A s \in sessions : s.id # reply.id
    /\ \A v \in StoredRows : v.session_id # reply.id
    /\ StoredRows # {}


(***************************************************************************)
(* C19: what an insight regeneration changes.                              *)
(***************************************************************************)
\* This step is a generate_summary request.
SummaryStep ==
    reply'.n = reply.n + 1 /\ reply'.handler = "generate_summary"

\* Row k is the same before and after the step but for its insights.
SameButInsights(k) ==
    visualizations' = [visualizations EXCEPT
                          ![k].insights = visualizations'[k].insights]

\* C19: a generate_summary request changes at most the insights field of
\* the visualization it names; when it answers success the answer carries
\* the insights now stored in that row; every other field, every other
\* visualization, every session and every file is unchanged; when it does
\* not answer success nothing in the store has changed.
C19_OnlyInsightsOfOneRowChange ==
    [][SummaryStep =>
          /\ sessions' = sessions
          /\ files' = files
          /\ pending' = pending
          /\ Len(visualizations') = Len(visualizations)
          /\ \A k \in 1..Len(visualizations) :
                 IF visualizations[k].id = reply'.id
                        /\ reply'.answer = "success"
                     THEN /\ SameButInsights(k)
                          /\ visualizations'[k].insights = reply'.insights
                 ELSE visualizations'[k] = visualizations[k]
          /\ reply'.answer # "success" => visualizations' = visualizations]_vars

\* A regeneration has succeeded: the row it names holds the insights that
\* were answered, and they are not the text the upload stored.
C19_Witness ==
    /\ reply.handler = "generate_summary"
    /\ reply.answer = "success"
    /\ \E v \in StoredRows :
           /\ v.id = reply.id
           /\ v.insights = reply.insights
           /\ v.insights \notin
                  {"Click 'Generate Insights' for AI analysis",
                   "Essential visualization - correlation and outlier analysis"}
    /\ \E v \in StoredRows : v.id # reply.id


(***************************************************************************)
(* C20: uploads that are rejected at the door.                             *)
(***************************************************************************)
\* This step is the arrival of an upload request.
UploadStep == uploads' = uploads + 1

\* The request has no file part, an empty filename, or a filename whose
\* last extension is not csv in any case of letters.
NotACsvUpload(r) ==
    \/ ~r.present
    \/ r.submitted = <<>>
    \/ Len(r.submitted) < 2
    \/ r.submitted[Len(r.submitted)] \notin {"csv", "CSV", "Csv"}

\* C20: an upload without a file, with an empty filename or with a filename
\* whose last extension is not csv is answered at once: the pipeline does
\* not start, no file is written to the upload folder and no session or
\* visualization row is created.
C20_NonCsvUploadIsRejected ==
    [][UploadStep /\ NotACsvUpload(req') =>
          /\ pc' = "idle"
          /\ req'.result \in {"no_file", "invalid"}
          /\ files' = files
          /\ sessions' = sessions
          /\ visualizations' = visualizations
          /\ pending' = pending]_vars

\* data.csv.txt has been refused: csv is an extension of the name but not
\* the last one; the folder holds no such file.
C20_Witness ==
    /\ pc = "idle"
    /\ req.result = "invalid"
    /\ req.submitted = <<"data", "csv", "txt">>
    /\ ~files[<<"data", "csv", "txt">>].exists
    /\ pending = <<>>


(***************************************************************************)
(* C21: the column descriptors.                                            *)
(***************************************************************************)
\* The type the descriptor of a column must have, by the storage of the
\* column.
TypeOfStorage(dtype) ==
    CASE dtype \in {"object", "category"} -> "categorical"
      [] dtype \in {"datetime64[ns]", "datetime64[ns, UTC]"} -> "datetime"
      [] OTHER -> "numerical"

\* C21: get_column_info returns exactly one descriptor per column of the
\* dataframe, in column order, whose type is categorical for object or
\* category storage, datetime for datetime storage and numerical for
\* everything else; a dataframe with no columns gives the empty list.
C21_OneDescriptorPerColumn ==
    (util.fn = "get_column_info" /\ util.pc # "call")
        => /\ util.pc = "returned"
           /\ Len(util.result.value) = Len(util.args.df.columns)
           /\ \A i \in 1..Len(util.args.df.columns) :
                  /\ DOMAIN util.result.value[i] = {"name", "type"}
                  /\ util.result.value[i].name = util.args.df.columns[i].name
                  /\ util.result.value[i].type \in ColumnTypes
                  /\ util.result.value[i].type =
                         TypeOfStorage(util.args.df.columns[i].dtype)
           /\ util.args.df.columns = <<>> => util.result.value = <<>>

\* A dataframe with a timezone-aware datetime column and a timedelta column
\* has been described: datetime, then numerical.
C21_Witness ==
    /\ util.fn = "get_column_info"
    /\ util.pc = "returned"
    /\ Len(util.args.df.columns) = 2
    /\ util.args.df.columns[1].dtype = "datetime64[ns, UTC]"
    /\ util.args.df.columns[2].dtype = "timedelta64[ns]"
    /\ util.result.value[1].type = "datetime"
    /\ util.result.value[2].type = "numerical"


(***************************************************************************)
(* C22: the strong correlations the heatmap's description reports.         *)
(***************************************************************************)
\* The unordered pairs of distinct columns whose correlation is stronger
\* than 0.7 in absolute value.
StrongPairs ==
    {{i, j} : i \in 1..util.args.n, j \in 1..util.args.n} \cap
    {{p[1], p[2]} : p \in
        {q \in (1..util.args.n) \X (1..util.args.n) :
            /\ q[1] # q[2]
            /\ ~util.args.corr_matrix[q[1]][q[2]].nan
            /\ \/ util.args.corr_matrix[q[1]][q[2]].v > 70
               \/ util.args.corr_matrix[q[1]][q[2]].v < 0 - 70}}

\* C22: for a heatmap over n >= 2 numerical columns the number of variable
\* pairs the description reports is the number of unordered pairs of
\* distinct columns with |r| > 0.7, and the description says that no strong
\* correlations were detected exactly when that number is 0.
C22_ReportedPairsAreTheStrongPairs ==
    (util.fn = "_generate_correlation_heatmap" /\ util.pc = "returned")
        => /\ util.result.value.pairs = Cardinality(StrongPairs)
           /\ util.result.value.sentence = "No strong correlations detected."
                  <=> Cardinality(StrongPairs) = 0


(***************************************************************************)
(* C23: no missing cell after cleaning.                                    *)
(***************************************************************************)
\* m is a median of the values of the float64 column that are not missing:
\* at most half of them are smaller and at most half of them are larger.
IsMedian(m, column) ==
    LET present == {i \in 1..Len(column) : ~column[i].nan}
    IN  /\ present # {}
        /\ ~m.nan
        /\ 2 * Cardinality({i \in present : column[i].v < m.v})
               <= Cardinality(present)
        /\ 2 * Cardinality({i \in present : column[i].v > m.v})
               <= Cardinality(present)

\* s is a most frequent value of the object column, or 'Unknown' for a
\* column without a value.
IsMostFrequent(s, column) ==
    LET present == {i \in 1..Len(column) : column[i] # NaN}
    IN  IF present = {} THEN s = "Unknown"
        ELSE /\ \E i \in present : column[i] = s
             /\ \A j \in present :
                    Cardinality({i \in present : column[i] = s})
                        >= Cardinality({i \in present : column[i] = column[j]})

\* C23: after clean_dataframe returns, for every table, those without rows
\* and those with a column whose values are all missing included, no cell
\* of the cleaned table is missing: a missing float64 cell holds the median
\* of its column after deduplication, a missing object cell the most
\* frequent value of its column, or 'Unknown' when the column has no value.
C23_NoCellIsMissing ==
    (util.fn = "clean_dataframe(float64, object)" /\ util.pc # "call")
        => /\ util.pc = "returned"
           /\ LET kept == util.result.value.kept
                  df_clean == util.result.value.df_clean
                  mapping == util.result.value.encoding_mappings
              IN  /\ Len(df_clean) = Len(kept)
                  /\ \A i \in 1..Len(kept) :
                         /\ ~df_clean[i][1].nan
                         /\ df_clean[i][2] \in DOMAIN mapping
                         /\ mapping[df_clean[i][2]] # NaN
                         /\ kept[i][1].nan =>
                                IsMedian(df_clean[i][1], ColumnOf(kept, 1))
                         /\ ~kept[i][1].nan => df_clean[i][1] = kept[i][1]
                         /\ kept[i][2] = NaN =>
                                IsMostFrequent(mapping[df_clean[i][2]],
                                               ColumnOf(kept, 2))
                         /\ kept[i][2] # NaN =>
                                mapping[df_clean[i][2]] = kept[i][2]


(***************************************************************************)
(* C24: the payload of a rendering result.                                 *)
(***************************************************************************)
\* C24: every result generate_visualization returns is a pair of a payload
\* and a description whose payload is one image string (a data URI), on
\* the success path and on every error path (empty dataset, missing x or y
\* column, too few numerical columns, caught rendering exception), so that
\* it can be stored in graph_path.
C24_PayloadIsOneImageString ==
    (util.fn = "generate_visualization" /\ util.pc = "returned")
        => /\ DOMAIN util.result.value = {"graph_data", "description"}
           /\ util.result.value.graph_data.py = "str"
           /\ util.result.value.graph_data.image \in {"chart", "error"}


(***************************************************************************)
(* C25: the files of the stored sessions.                                  *)
(***************************************************************************)
\* No upload is in progress.
NoUploadInProgress == pc = "idle"

\* The file the session names exists, can be read and holds the data the
\* session's statistics snapshot was computed from.
FileOfSessionIntact(s) ==
    /\ files[s.filename].exists
    /\ files[s.filename].parses
    /\ get_dataset_stats(files[s.filename].df, FALSE) = s.dataset_stats

\* C25: after any sequence of uploads, two uploads of files with the same
\* name and uploads that fail included, the file that a stored session's
\* filename refers to still exists and still holds the data the session was
\* built from.
C25_SessionFilesAreKept ==
    NoUploadInProgress => \A s \in sessions : FileOfSessionIntact(s)

====
